---- MODULE Spec2Model ----
(***************************************************************************)
(* The share-page player of chest-music/player-v2.                         *)
(*                                                                         *)
(*   - the Play-Limit Gate: the usePlayLimits hook (hooks/usePlayLimits.ts)*)
(*     with its report-play requests to ChestAPIClient.updateTrackPlay;    *)
(*   - PlayerBar (components/PlayerBar.tsx): play/pause, seek, skip, loop, *)
(*     shuffle, volume, over the browser's audio element;                  *)
(*   - SharePage (pages/share/[token].tsx), which mounts both.             *)
(*                                                                         *)
(* The specifications:                                                     *)
(*   Spec      the hook driven by an arbitrary consumer of its interface   *)
(*             (props change, checkPlayLimit, decrementPlayCount, network  *)
(*             completions);                                               *)
(*   SpecPage  the page as it is wired: the hook's props come from the     *)
(*             page, PlayerBar handles the play intents;                   *)
(*   FairSpecPage  SpecPage in which the browser settles every play        *)
(*             request;                                                    *)
(*   SpecPlayer  PlayerBar mounted on a list of tracks: the transport      *)
(*             controls and the audio element's events;                    *)
(*   SpecVolume  PlayerBar's volume controls, which share no state with    *)
(*             the transport controls.                                     *)
(***************************************************************************)
EXTENDS Integers, Sequences, FiniteSets, Bags, TLC

(***************************************************************************)
(* Bounds of the model.                                                    *)
(***************************************************************************)
MaxId == 1
MaxPlays == 1
MaxLimit == 2
MaxInFlight == 2
MaxPlayPending == 2
MaxTracks == 3
\* the duration of every track, in seconds
TrackDuration == 4
\* pointer positions are multiples of 1/PointerSteps of the progress bar's width
PointerSteps == 2

\* if (audio.currentTime > 3)
SkipBackThreshold == 3
\* volumes are counted in twentieths: VolumeOne is the source's 1 and
\* VolumeStep the 0.1 of the arrow keys
VolumeOne == 20
VolumeStep == 2

\* null / undefined of the source (useState<number | null>(null), optional fields)
NULL == -1

VARIABLES
    \* ---- usePlayLimits: props
    track,            \* the ChestTrack bound to the hook, or NoTrack (null)
    isSharedLink,
    \* ---- usePlayLimits: state (PlayLimitState)
    playCount,
    playLimit,
    isLimitReached,
    hasDecremented,
    \* ---- report-play requests awaiting their response: a bag of the closures
    \*      that issued them
    inflight,
    \* ---- observer of the current track mount (not program state)
    mount,
    \* ---- PlayerBar: props and state
    mounted,          \* a PlayerBar instance exists
    numTracks,        \* tracks.length
    isPlaying,
    isLooping,
    isShuffled,
    currentTime,
    duration,
    currentTrackIndex,
    isDragging,
    volume,
    isMuted,
    showVolumeSlider,
    isVolumeDragging,
    \* ---- the audio element
    audioPaused,      \* its paused attribute
    audioTime,        \* its currentTime
    audioDuration,    \* its duration; 0 (NaN || 0) until the metadata is loaded
    audioVolume,      \* its volume
    playPromises,     \* audio.play() promises of togglePlayPause not yet settled
    docListeners,     \* mousemove / mouseup listeners of PlayerBar on the document
    \* ---- the do-while loop of a shuffled skip, run one draw per step
    loopPc,           \* "idle", or the function whose loop is running
    loopIndex,        \* its local newIndex
    draws,            \* draws of Math.random() in the current or last loop
    \* ---- SharePage
    showLimitModal,
    \* ---- observers (not program state)
    effectPlay,       \* the last run of the track-change effect called audio.play()
    onTrackChangeArg, \* the index last handed to onTrackChange, NULL: none yet
    last,             \* the handler that ran last
    startedAllowed,   \* canPlay at the intent that led to the current Playing state
    notifyOwed        \* a successful play the gate has not been notified of

gateVars == <<track, isSharedLink, playCount, playLimit, isLimitReached,
              hasDecremented, inflight, mount>>
\* playerState without its volume part, and the audio element's playback
barVars == <<mounted, numTracks, isShuffled, currentTime, duration,
             currentTrackIndex, isDragging, audioTime, audioDuration,
             onTrackChangeArg, last>>
volumeVars == <<volume, isMuted, showVolumeSlider, isVolumeDragging, audioVolume>>
\* the document listeners, the page's modal flag, the effect's observer
auxVars == <<docListeners, showLimitModal, effectPlay>>
\* the shuffle loop in progress
loopVars == <<loopPc, loopIndex, draws>>
playerVars == <<isPlaying, isLooping, audioPaused, playPromises,
                startedAllowed, notifyOwed, barVars, volumeVars, auxVars,
                loopVars>>
vars == <<gateVars, playerVars>>

(***************************************************************************)
(* Data.                                                                   *)
(***************************************************************************)
\* the share tokens of the model; 0: the track carries no token
Tokens == {0, 1}

\* track === null
NoTrack == [id |-> 0, token |-> 0, plays |-> NULL, play_limit |-> NULL]

\* ChestTrack: id, optional token (0: absent), optional plays and play_limit
Tracks == [id : 1..MaxId, token : Tokens,
           plays : {NULL} \cup (0..MaxPlays),
           play_limit : {NULL} \cup (0..MaxLimit)]

\* JavaScript truthiness of an optional number
Truthy(x) == x # NULL /\ x # 0

\* x || 0
OrZero(x) == IF Truthy(x) THEN x ELSE 0

\* x || null
OrNull(x) == IF Truthy(x) THEN x ELSE NULL

\* the effect's dependency list [track?.id, track?.token, isSharedLink]
Deps(t, s) == <<t.id, t.token, s>>

\* the identity of the bound track
Identity(t) == <<t.id, t.token>>

\* the outcome of every report-play request: fetch throws, the response is
\* not OK, or the body carries success
Responses == [reached : BOOLEAN, ok : BOOLEAN, success : BOOLEAN]

UpdateTrackPlay(resp) ==
    IF ~resp.reached THEN "throw"
    ELSE IF ~resp.ok THEN "throw"
    ELSE IF resp.success THEN "success" ELSE "failure"

(***************************************************************************)
(* usePlayLimits.                                                          *)
(***************************************************************************)
canPlay == ~isSharedLink \/ ~isLimitReached

\* every request in flight now belongs to an earlier binding
MarkStale(B) ==
    LET S == {[r EXCEPT !.stale = TRUE] : r \in DOMAIN B}
        N(s) == (IF s \in DOMAIN B THEN B[s] ELSE 0)
                + (IF [s EXCEPT !.stale = FALSE] \in DOMAIN B
                   THEN B[[s EXCEPT !.stale = FALSE]] ELSE 0)
    IN  [s \in S |-> N(s)]

\* the effect that initialises the limits, run after a render whose
\* dependencies changed
InitEffect(t, s) ==
    /\ IF t = NoTrack \/ ~s
       THEN /\ playCount' = 0
            /\ playLimit' = NULL
            /\ isLimitReached' = FALSE
            /\ hasDecremented' = FALSE
       ELSE /\ playCount' = OrZero(t.plays)
            /\ playLimit' = OrNull(t.play_limit)
            /\ hasDecremented' = FALSE
            /\ isLimitReached' =
                 IF Truthy(t.play_limit) /\ OrZero(t.plays) >= t.play_limit
                 THEN TRUE ELSE isLimitReached
    /\ inflight' = MarkStale(inflight)
    /\ mount' = [succeeded |-> 0, failed |-> FALSE, staleHit |-> FALSE]

\* the hook is rendered with new props
RebindGate(t, s) ==
    /\ Deps(t, s) # Deps(track, isSharedLink)
    /\ track' = t
    /\ isSharedLink' = s
    /\ InitEffect(t, s)

\* checkPlayLimit refusing only above the limit (playCount > playLimit)
checkPlayLimitResult_AboveLimit ==
    IF ~isSharedLink \/ ~Truthy(playLimit) THEN TRUE
    ELSE IF playCount > playLimit THEN FALSE ELSE TRUE

\* the value checkPlayLimit returns
checkPlayLimitResult ==
    IF ~isSharedLink \/ ~Truthy(playLimit) THEN TRUE
    ELSE IF playCount >= playLimit THEN FALSE ELSE TRUE

CheckPlayLimitGate ==
    /\ isLimitReached' = IF checkPlayLimitResult THEN isLimitReached ELSE TRUE
    /\ UNCHANGED <<track, isSharedLink, playCount, playLimit, hasDecremented,
                   inflight, mount>>

\* decrementPlayCount without the hasDecremented test of its early return
DecrementPlayCountGate_NoRecordedTest ==
    /\ IF track = NoTrack \/ ~isSharedLink \/ isLimitReached
       THEN inflight' = inflight
       ELSE /\ BagCardinality(inflight) < MaxInFlight
            /\ inflight' = inflight (+) SetToBag({[playCount |-> playCount,
                                                   playLimit |-> playLimit,
                                                   stale |-> FALSE]})
    /\ UNCHANGED <<track, isSharedLink, playCount, playLimit, isLimitReached,
                   hasDecremented, mount>>

\* decrementPlayCount up to its await: the early return, or the request
DecrementPlayCountGate ==
    /\ IF track = NoTrack \/ ~isSharedLink \/ isLimitReached \/ hasDecremented
       THEN inflight' = inflight
       ELSE /\ BagCardinality(inflight) < MaxInFlight
            /\ inflight' = inflight (+) SetToBag({[playCount |-> playCount,
                                                   playLimit |-> playLimit,
                                                   stale |-> FALSE]})
    /\ UNCHANGED <<track, isSharedLink, playCount, playLimit, isLimitReached,
                   hasDecremented, mount>>

\* the continuation with the limit test newPlayCount > playLimit
SettleGate_StrictLimit(r, resp) ==
    /\ BagIn(r, inflight)
    /\ inflight' = inflight (-) SetToBag({r})
    /\ IF UpdateTrackPlay(resp) = "success"
       THEN LET newPlayCount == r.playCount + 1 IN
            /\ playCount' = newPlayCount
            /\ hasDecremented' = TRUE
            /\ isLimitReached' =
                 IF Truthy(r.playLimit) /\ newPlayCount > r.playLimit
                 THEN TRUE ELSE isLimitReached
            /\ mount' = IF r.stale
                        THEN [mount EXCEPT !.staleHit = TRUE]
                        ELSE [mount EXCEPT !.succeeded = @ + 1]
       ELSE /\ mount' = IF r.stale THEN mount ELSE [mount EXCEPT !.failed = TRUE]
            /\ UNCHANGED <<playCount, hasDecremented, isLimitReached>>
    /\ UNCHANGED <<track, isSharedLink, playLimit>>

\* the continuation incrementing the state as it is when the response arrives
\* (setPlayCount(c => c + 1)) instead of the count its closure captured
SettleGate_Accumulate(r, resp) ==
    /\ BagIn(r, inflight)
    /\ inflight' = inflight (-) SetToBag({r})
    /\ IF UpdateTrackPlay(resp) = "success"
       THEN LET newPlayCount == playCount + 1 IN
            /\ playCount' = newPlayCount
            /\ hasDecremented' = TRUE
            /\ isLimitReached' =
                 IF Truthy(r.playLimit) /\ newPlayCount >= r.playLimit
                 THEN TRUE ELSE isLimitReached
            /\ mount' = IF r.stale
                        THEN [mount EXCEPT !.staleHit = TRUE]
                        ELSE [mount EXCEPT !.succeeded = @ + 1]
       ELSE /\ mount' = IF r.stale THEN mount ELSE [mount EXCEPT !.failed = TRUE]
            /\ UNCHANGED <<playCount, hasDecremented, isLimitReached>>
    /\ UNCHANGED <<track, isSharedLink, playLimit>>

\* how the promise of decrementPlayCount settles: whatever updateTrackPlay
\* throws inside the try block is caught and logged
decrementPlayCountPromise(resp) ==
    LET thrown == UpdateTrackPlay(resp) = "throw"
        caught == thrown
    IN  IF thrown /\ ~caught THEN "rejected" ELSE "resolved"

\* the continuation marking the play as recorded whatever the response
\* (setHasDecremented(true) in a finally block)
SettleGate_MarkOnFailure(r, resp) ==
    /\ BagIn(r, inflight)
    /\ inflight' = inflight (-) SetToBag({r})
    /\ IF UpdateTrackPlay(resp) = "success"
       THEN LET newPlayCount == r.playCount + 1 IN
            /\ playCount' = newPlayCount
            /\ hasDecremented' = TRUE
            /\ isLimitReached' =
                 IF Truthy(r.playLimit) /\ newPlayCount >= r.playLimit
                 THEN TRUE ELSE isLimitReached
            /\ mount' = IF r.stale
                        THEN [mount EXCEPT !.staleHit = TRUE]
                        ELSE [mount EXCEPT !.succeeded = @ + 1]
       ELSE /\ mount' = IF r.stale THEN mount ELSE [mount EXCEPT !.failed = TRUE]
            /\ hasDecremented' = TRUE
            /\ UNCHANGED <<playCount, isLimitReached>>
    /\ UNCHANGED <<track, isSharedLink, playLimit>>

\* the continuation storing the outcome of the response in the flag
\* (setHasDecremented(result.success))
SettleGate_ClearOnFailure(r, resp) ==
    /\ BagIn(r, inflight)
    /\ inflight' = inflight (-) SetToBag({r})
    /\ IF UpdateTrackPlay(resp) = "success"
       THEN LET newPlayCount == r.playCount + 1 IN
            /\ playCount' = newPlayCount
            /\ hasDecremented' = TRUE
            /\ isLimitReached' =
                 IF Truthy(r.playLimit) /\ newPlayCount >= r.playLimit
                 THEN TRUE ELSE isLimitReached
            /\ mount' = IF r.stale
                        THEN [mount EXCEPT !.staleHit = TRUE]
                        ELSE [mount EXCEPT !.succeeded = @ + 1]
       ELSE /\ mount' = IF r.stale THEN mount ELSE [mount EXCEPT !.failed = TRUE]
            /\ hasDecremented' = FALSE
            /\ UNCHANGED <<playCount, isLimitReached>>
    /\ UNCHANGED <<track, isSharedLink, playLimit>>

\* decrementPlayCount after its await: the response of request r
SettleGate(r, resp) ==
    /\ BagIn(r, inflight)
    /\ inflight' = inflight (-) SetToBag({r})
    /\ IF UpdateTrackPlay(resp) = "success"
       THEN LET newPlayCount == r.playCount + 1 IN
            /\ playCount' = newPlayCount
            /\ hasDecremented' = TRUE
            /\ isLimitReached' =
                 IF Truthy(r.playLimit) /\ newPlayCount >= r.playLimit
                 THEN TRUE ELSE isLimitReached
            /\ mount' = IF r.stale
                        THEN [mount EXCEPT !.staleHit = TRUE]
                        ELSE [mount EXCEPT !.succeeded = @ + 1]
       ELSE /\ mount' = IF r.stale THEN mount ELSE [mount EXCEPT !.failed = TRUE]
            /\ UNCHANGED <<playCount, hasDecremented, isLimitReached>>
    /\ UNCHANGED <<track, isSharedLink, playLimit>>

(***************************************************************************)
(* PlayLimitBanner, as SharePage renders it: inside isSharedLink &&        *)
(* currentTrack, with playCount and playLimit || 0 of the hook.            *)
(***************************************************************************)
\* the banner returns its markup rather than null
PlayLimitBannerShown ==
    /\ isSharedLink /\ track # NoTrack
    /\ ~(~isSharedLink \/ ~Truthy(OrZero(playLimit)) \/ OrZero(playLimit) <= 0)

\* Math.max(0, playLimit - playCount)
remaining ==
    IF OrZero(playLimit) - playCount > 0 THEN OrZero(playLimit) - playCount ELSE 0

(***************************************************************************)
(* The hook under an arbitrary consumer.                                   *)
(***************************************************************************)
\* useState defaults of PlayerBar and the audio element before its first load
PlayerBarInit ==
    /\ isPlaying = FALSE
    /\ isLooping = FALSE
    /\ isShuffled = FALSE
    /\ currentTime = 0
    /\ duration = 0
    /\ currentTrackIndex = 0
    /\ isDragging = FALSE
    /\ volume = VolumeOne
    /\ isMuted = FALSE
    /\ showVolumeSlider = FALSE
    /\ isVolumeDragging = FALSE
    /\ audioPaused = TRUE
    /\ audioTime = 0
    /\ audioDuration = 0
    /\ audioVolume = VolumeOne
    /\ playPromises = <<>>
    /\ docListeners = FALSE
    /\ effectPlay = FALSE
    /\ onTrackChangeArg = NULL
    /\ last = "none"
    /\ startedAllowed = TRUE
    /\ notifyOwed = FALSE
    /\ loopPc = "idle"
    /\ loopIndex = 0
    /\ draws = 0

GateInit ==
    /\ track = NoTrack
    /\ isSharedLink = FALSE
    /\ playCount = 0
    /\ playLimit = NULL
    /\ isLimitReached = FALSE
    /\ hasDecremented = FALSE
    /\ inflight = EmptyBag
    /\ mount = [succeeded |-> 0, failed |-> FALSE, staleHit |-> FALSE]

Init ==
    /\ GateInit
    /\ showLimitModal = FALSE
    /\ mounted = FALSE
    /\ numTracks = 0
    /\ PlayerBarInit

Rebind ==
    \E t \in Tracks \cup {NoTrack}, s \in BOOLEAN :
        RebindGate(t, s) /\ UNCHANGED playerVars

CheckPlayLimit == CheckPlayLimitGate /\ UNCHANGED playerVars

DecrementPlayCount ==
    /\ DecrementPlayCountGate
    /\ notifyOwed' = FALSE
    /\ UNCHANGED <<isPlaying, isLooping, audioPaused, playPromises, startedAllowed,
                   barVars, volumeVars, auxVars, loopVars>>

Settle ==
    \E r \in DOMAIN inflight, resp \in Responses :
        SettleGate(r, resp) /\ UNCHANGED playerVars

Next ==
    \/ Rebind
    \/ CheckPlayLimit
    \/ DecrementPlayCount
    \/ Settle

Spec == Init /\ [][Next]_vars

(***************************************************************************)
(* PlayerBar over the audio element.  Times are whole seconds.             *)
(***************************************************************************)
\* the audio element exists while PlayerBar has a current track to render
audioMounted == mounted /\ currentTrackIndex < numTracks

Min(a, b) == IF a < b THEN a ELSE b

Max(a, b) == IF a > b THEN a ELSE b

\* the state of a PlayerBar that is mounted or unmounted
PlayerDefaults ==
    /\ isPlaying' = FALSE
    /\ isLooping' = FALSE
    /\ isShuffled' = FALSE
    /\ currentTime' = 0
    /\ duration' = 0
    /\ currentTrackIndex' = 0
    /\ isDragging' = FALSE
    /\ volume' = VolumeOne
    /\ isMuted' = FALSE
    /\ showVolumeSlider' = FALSE
    /\ isVolumeDragging' = FALSE
    /\ audioPaused' = TRUE
    /\ audioTime' = 0
    /\ audioDuration' = 0
    /\ audioVolume' = VolumeOne
    /\ playPromises' = <<>>
    /\ docListeners' = FALSE
    /\ effectPlay' = FALSE
    /\ onTrackChangeArg' = NULL
    /\ startedAllowed' = TRUE

\* the value audio.currentTime reads after audio.currentTime = t: a seek is
\* clamped to the resource; before the metadata is loaded the element keeps
\* the value as its default playback start position
SetAudioTime(t) ==
    IF audioDuration = 0 THEN t ELSE Max(0, Min(audioDuration, t))

\* the transport after the track-change effect, which runs whenever
\* currentTrackIndex or isPlaying changed: audio.load() pauses the element,
\* rewinds it, forgets the metadata and rejects the play promises still
\* pending; with isPlaying the effect requests play again, which the browser
\* allows or not
\* the effect without its if (playerState.isPlaying) audio.play() branch:
\* the new source is loaded and never started
TrackChangeEffect_NoResume(playing) ==
    /\ effectPlay' = FALSE
    /\ playPromises' = <<>>
    /\ audioTime' = 0
    /\ audioDuration' = 0
    /\ audioPaused' = TRUE

TrackChangeEffect(playing) ==
    /\ effectPlay' = playing
    /\ playPromises' = <<>>
    /\ audioTime' = 0
    /\ audioDuration' = 0
    /\ IF playing
       THEN \E allowed \in BOOLEAN : audioPaused' = ~allowed
       ELSE audioPaused' = TRUE

RemoveAt(seq, i) == SubSeq(seq, 1, i - 1) \o SubSeq(seq, i + 1, Len(seq))

TogglePlayPause ==
    /\ audioMounted
    /\ last' = "togglePlayPause"
    /\ IF isPlaying
       THEN /\ isPlaying' = FALSE
            /\ TrackChangeEffect(FALSE)
       ELSE /\ Len(playPromises) < MaxPlayPending
            /\ playPromises' = Append(playPromises, [canPlay |-> canPlay])
            /\ UNCHANGED <<isPlaying, audioPaused, audioTime, audioDuration,
                           effectPlay>>
    /\ UNCHANGED <<mounted, numTracks, isLooping, isShuffled, currentTime, duration,
                   currentTrackIndex, isDragging, onTrackChangeArg,
                   startedAllowed, notifyOwed>>
    /\ UNCHANGED <<gateVars, loopVars, volumeVars>>
    /\ UNCHANGED <<docListeners, showLimitModal>>

\* audio.play() of togglePlayPause fulfils: its then-handler runs
PlayResolve ==
    \E i \in 1..Len(playPromises) :
        /\ audioMounted
        /\ isPlaying' = TRUE
        /\ IF isPlaying
           THEN /\ playPromises' = RemoveAt(playPromises, i)
                /\ audioPaused' = FALSE
                /\ UNCHANGED <<audioTime, audioDuration, startedAllowed, notifyOwed,
                               effectPlay>>
           ELSE /\ TrackChangeEffect(TRUE)
                /\ startedAllowed' = playPromises[i].canPlay
                /\ notifyOwed' = isSharedLink
        /\ last' = "playResolved"
        /\ UNCHANGED <<mounted, numTracks, isLooping, isShuffled, currentTime,
                       duration, currentTrackIndex, isDragging, onTrackChangeArg>>
        /\ UNCHANGED <<gateVars, loopVars, volumeVars>>
        /\ UNCHANGED <<docListeners, showLimitModal>>

\* how the promise chain audio.play().then(...).catch(console.error) of
\* togglePlayPause ends when play() settles with the given outcome
togglePlayPauseChain(outcome) ==
    LET rejected == outcome = "rejected"
        caught == rejected
    IN  IF rejected /\ ~caught THEN "unhandled rejection" ELSE "settled"

\* audio.play() of togglePlayPause rejects and the rejection is retried: the
\* handler requests play again
PlayReject_Retry ==
    \E i \in 1..Len(playPromises) :
        /\ audioMounted
        /\ playPromises' = Append(RemoveAt(playPromises, i), [canPlay |-> canPlay])
        /\ last' = "playRejected"
        /\ UNCHANGED <<mounted, numTracks, isPlaying, isLooping, isShuffled,
                       currentTime, duration, currentTrackIndex, isDragging,
                       audioPaused, audioTime, audioDuration, onTrackChangeArg,
                       startedAllowed, notifyOwed>>
        /\ UNCHANGED <<gateVars, loopVars, volumeVars>>
        /\ UNCHANGED auxVars

\* audio.play() of togglePlayPause rejects: the error is logged
PlayReject ==
    \E i \in 1..Len(playPromises) :
        /\ audioMounted
        /\ playPromises' = RemoveAt(playPromises, i)
        /\ last' = "playRejected"
        /\ UNCHANGED <<mounted, numTracks, isPlaying, isLooping, isShuffled,
                       currentTime, duration, currentTrackIndex, isDragging,
                       audioPaused, audioTime, audioDuration, onTrackChangeArg,
                       startedAllowed, notifyOwed>>
        /\ UNCHANGED <<gateVars, loopVars, volumeVars>>
        /\ UNCHANGED auxVars

\* playback has reached the end of the resource
atEnd == audioDuration # 0 /\ audioTime = audioDuration

\* the element reports end-of-track (it does not while its loop attribute is
\* set): handleEnded, then the track-change effect if isPlaying changed
Ended ==
    /\ audioMounted
    /\ ~audioPaused
    /\ ~isLooping
    /\ atEnd
    /\ isPlaying' = FALSE
    /\ IF isPlaying
       THEN TrackChangeEffect(FALSE)
       ELSE audioPaused' = TRUE
            /\ UNCHANGED <<playPromises, audioTime, audioDuration, effectPlay>>
    /\ last' = "ended"
    /\ UNCHANGED <<mounted, numTracks, isLooping, isShuffled, currentTime, duration,
                   currentTrackIndex, isDragging, onTrackChangeArg,
                   startedAllowed, notifyOwed>>
    /\ UNCHANGED <<gateVars, loopVars, volumeVars>>
    /\ UNCHANGED <<docListeners, showLimitModal>>

\* end-of-track with the loop attribute set: the element seeks to the start
\* and plays on
LoopRestart ==
    /\ audioMounted
    /\ ~audioPaused
    /\ isLooping
    /\ atEnd
    /\ audioTime' = 0
    /\ last' = "loopRestart"
    /\ UNCHANGED <<mounted, numTracks, isPlaying, isLooping, isShuffled, currentTime,
                   duration, currentTrackIndex, isDragging, audioPaused,
                   audioDuration, playPromises, onTrackChangeArg, startedAllowed,
                   notifyOwed>>
    /\ UNCHANGED <<gateVars, loopVars, volumeVars>>
    /\ UNCHANGED auxVars

ToggleLoop ==
    /\ mounted
    /\ last' = "toggleLoop"
    /\ isLooping' = ~isLooping
    /\ UNCHANGED <<mounted, numTracks, isPlaying, isShuffled, currentTime, duration,
                   currentTrackIndex, isDragging, audioPaused, audioTime,
                   audioDuration, playPromises, onTrackChangeArg, startedAllowed,
                   notifyOwed>>
    /\ UNCHANGED <<gateVars, loopVars, volumeVars>>
    /\ UNCHANGED auxVars

\* a shuffle toggle that also goes back to the first track:
\* setPlayerState({isShuffled: !isShuffled, currentTrackIndex: 0})
ToggleShuffle_BackToFirst ==
    /\ mounted
    /\ last' = "toggleShuffle"
    /\ isShuffled' = ~isShuffled
    /\ currentTrackIndex' = 0
    /\ IF currentTrackIndex # 0 /\ 0 < numTracks
       THEN TrackChangeEffect(isPlaying)
       ELSE UNCHANGED <<playPromises, audioPaused, audioTime, audioDuration,
                        effectPlay>>
    /\ UNCHANGED <<mounted, numTracks, isPlaying, isLooping, currentTime, duration,
                   isDragging, onTrackChangeArg, startedAllowed, notifyOwed>>
    /\ UNCHANGED <<gateVars, loopVars, volumeVars>>
    /\ UNCHANGED <<docListeners, showLimitModal>>

ToggleShuffle ==
    /\ mounted
    /\ last' = "toggleShuffle"
    /\ isShuffled' = ~isShuffled
    /\ UNCHANGED <<mounted, numTracks, isPlaying, isLooping, currentTime, duration,
                   currentTrackIndex, isDragging, audioPaused, audioTime,
                   audioDuration, playPromises, onTrackChangeArg, startedAllowed,
                   notifyOwed>>
    /\ UNCHANGED <<gateVars, loopVars, volumeVars>>
    /\ UNCHANGED auxVars

(***************************************************************************)
(* Skip.                                                                   *)
(***************************************************************************)
\* skip-forward that tests i < tracks.length and so steps past the last index
nextIndex_PastLast(i, n) == IF i < n THEN i + 1 ELSE 0

\* skip-backward that stays on the first track instead of wrapping
previousIndex_NoWrap(i, n) == IF i > 0 THEN i - 1 ELSE 0

\* the shuffle branch with a single draw, never redrawn
randomIndex_SingleDraw(i, n) ==
    IF n > 1 THEN 0..(n - 1) ELSE {0}

\* i < tracks.length - 1 ? i + 1 : 0
nextIndex(i, n) == IF i < n - 1 THEN i + 1 ELSE 0

\* i > 0 ? i - 1 : tracks.length - 1
previousIndex(i, n) == IF i > 0 THEN i - 1 ELSE n - 1

\* the shuffle branch with Math.round in place of Math.floor, which can draw
\* tracks.length itself
randomIndex_Round(i, n) ==
    IF n > 1 THEN (0..n) \ {i} ELSE {0}

\* the indices the do-while loop of the shuffle branch can end with:
\* Math.floor(Math.random() * n) redrawn while it is i and n > 1
randomIndex(i, n) ==
    IF n > 1 THEN (0..(n - 1)) \ {i} ELSE {0}

\* setPlayerState({currentTrackIndex: newIndex}), onTrackChange?.(newIndex),
\* then the track-change effect if the index changed
ChangeTrack(newIndex) ==
    /\ currentTrackIndex' = newIndex
    /\ onTrackChangeArg' = newIndex
    /\ IF newIndex # currentTrackIndex /\ newIndex < numTracks
       THEN TrackChangeEffect(isPlaying)
       ELSE UNCHANGED <<playPromises, audioPaused, audioTime, audioDuration,
                        effectPlay>>

\* skip-forward that also pauses: setPlayerState({currentTrackIndex,
\* isPlaying: false}), so that the effect loads without requesting play
SkipForward_Pauses ==
    /\ mounted
    /\ last' = "skipForward"
    /\ \E newIndex \in IF isShuffled
                       THEN randomIndex(currentTrackIndex, numTracks)
                       ELSE {nextIndex(currentTrackIndex, numTracks)} :
           /\ currentTrackIndex' = newIndex
           /\ onTrackChangeArg' = newIndex
           /\ isPlaying' = FALSE
           /\ IF (newIndex # currentTrackIndex \/ isPlaying) /\ newIndex < numTracks
              THEN TrackChangeEffect(FALSE)
              ELSE UNCHANGED <<playPromises, audioPaused, audioTime, audioDuration,
                               effectPlay>>
    /\ UNCHANGED <<mounted, numTracks, isLooping, isShuffled, currentTime,
                   duration, isDragging, startedAllowed, notifyOwed>>
    /\ UNCHANGED <<gateVars, loopVars, volumeVars>>
    /\ UNCHANGED <<docListeners, showLimitModal>>

SkipForward ==
    /\ mounted
    /\ last' = "skipForward"
    /\ \E newIndex \in IF isShuffled
                       THEN randomIndex(currentTrackIndex, numTracks)
                       ELSE {nextIndex(currentTrackIndex, numTracks)} :
           ChangeTrack(newIndex)
    /\ UNCHANGED <<mounted, numTracks, isPlaying, isLooping, isShuffled, currentTime,
                   duration, isDragging, startedAllowed, notifyOwed>>
    /\ UNCHANGED <<gateVars, loopVars, volumeVars>>
    /\ UNCHANGED <<docListeners, showLimitModal>>

SkipBackward ==
    /\ audioMounted
    /\ last' = "skipBackward"
    /\ IF audioTime > SkipBackThreshold
       THEN /\ audioTime' = SetAudioTime(0)
            /\ currentTime' = 0
            /\ UNCHANGED <<currentTrackIndex, onTrackChangeArg, playPromises,
                           audioPaused, audioDuration, effectPlay>>
       ELSE /\ \E newIndex \in IF isShuffled
                               THEN randomIndex(currentTrackIndex, numTracks)
                               ELSE {previousIndex(currentTrackIndex, numTracks)} :
                   ChangeTrack(newIndex)
            /\ UNCHANGED currentTime
    /\ UNCHANGED <<mounted, numTracks, isPlaying, isLooping, isShuffled, duration,
                   isDragging, startedAllowed, notifyOwed>>
    /\ UNCHANGED <<gateVars, loopVars, volumeVars>>
    /\ UNCHANGED <<docListeners, showLimitModal>>

(***************************************************************************)
(* Seek and the volume bar.                                                *)
(***************************************************************************)
\* clickX / width of a pointer inside the bar, in PointerSteps-ths
InsideBar == 0..PointerSteps

\* clickX / width of a pointer anywhere in the document
AnywhereOnPage == (-1)..(PointerSteps + 1)

\* handleProgressInteraction with the pointer at p
ProgressInteraction(p) ==
    LET newTime == (p * duration) \div PointerSteps IN
    /\ audioTime' = SetAudioTime(newTime)
    /\ currentTime' = newTime

\* the effect without its cleanup: the listeners are added when a drag starts
\* and never taken off the document
DragEffect_NoCleanup ==
    docListeners' = (docListeners \/ isDragging' \/ isVolumeDragging')

\* the effect that attaches handleMouseMove and handleMouseUp to the
\* document while a drag is active, after a render that changed either flag;
\* its cleanup detaches them
DragEffect == docListeners' = (isDragging' \/ isVolumeDragging')

ProgressMouseDown ==
    /\ audioMounted
    /\ isDragging' = TRUE
    /\ \E p \in InsideBar : ProgressInteraction(p)
    /\ last' = "progressMouseDown"
    /\ UNCHANGED <<mounted, numTracks, isPlaying, isLooping, isShuffled, duration,
                   currentTrackIndex, audioPaused, audioDuration, playPromises,
                   onTrackChangeArg, startedAllowed, notifyOwed>>
    /\ UNCHANGED <<gateVars, loopVars, volumeVars>>
    /\ UNCHANGED <<showLimitModal, effectPlay>>
    /\ DragEffect

\* audio.volume = isMuted ? 0 : volume, after a render that changed either
VolumeEffect ==
    audioVolume' = IF audioMounted
                   THEN (IF isMuted' THEN 0 ELSE volume')
                   ELSE audioVolume

\* clickX / width of a pointer over the volume section, in VolumeOne-ths
VolumePointers == {-1, 0, 1, VolumeOne - 1, VolumeOne, VolumeOne + 1}

\* handleVolumeChange without Math.max(0, Math.min(1, ...))
VolumeChange_NoClamp(q) ==
    /\ volume' = q
    /\ isMuted' = (q = 0)
    /\ VolumeEffect

\* handleVolumeChange with the pointer at q
VolumeChange(q) ==
    LET newVolume == Max(0, Min(VolumeOne, q)) IN
    /\ volume' = newVolume
    /\ isMuted' = (newVolume = 0)
    /\ VolumeEffect

\* handleMouseMove, attached to the document during a drag
MouseMove ==
    /\ docListeners
    /\ IF isDragging /\ audioMounted
       THEN \E p \in AnywhereOnPage : ProgressInteraction(p)
       ELSE UNCHANGED <<audioTime, currentTime>>
    /\ IF isVolumeDragging /\ audioMounted
       THEN \E q \in VolumePointers : VolumeChange(q)
       ELSE UNCHANGED <<volume, isMuted, audioVolume>>
    /\ last' = "mouseMove"
    /\ UNCHANGED <<mounted, numTracks, isPlaying, isLooping, isShuffled, duration,
                   currentTrackIndex, isDragging, audioPaused, audioDuration,
                   playPromises, onTrackChangeArg, startedAllowed, notifyOwed,
                   showVolumeSlider, isVolumeDragging>>
    /\ UNCHANGED <<gateVars, loopVars>>
    /\ UNCHANGED auxVars

\* handleMouseUp, attached to the document during a drag
MouseUp ==
    /\ docListeners
    /\ isDragging' = FALSE
    /\ isVolumeDragging' = FALSE
    /\ DragEffect
    /\ last' = "mouseUp"
    /\ UNCHANGED <<mounted, numTracks, isPlaying, isLooping, isShuffled, currentTime,
                   duration, currentTrackIndex, audioPaused, audioTime,
                   audioDuration, playPromises, onTrackChangeArg, startedAllowed,
                   notifyOwed, volume, isMuted, showVolumeSlider, audioVolume>>
    /\ UNCHANGED <<gateVars, loopVars>>
    /\ UNCHANGED <<showLimitModal, effectPlay>>

(***************************************************************************)
(* The audio element's playback and events.                                *)
(***************************************************************************)
\* a second of playback
AudioAdvance ==
    /\ audioMounted
    /\ ~audioPaused
    /\ audioDuration # 0
    /\ audioTime < audioDuration
    /\ audioTime' = audioTime + 1
    /\ last' = "none"
    /\ UNCHANGED <<mounted, numTracks, isPlaying, isLooping, isShuffled, currentTime,
                   duration, currentTrackIndex, isDragging, audioPaused,
                   audioDuration, playPromises, onTrackChangeArg, startedAllowed,
                   notifyOwed>>
    /\ UNCHANGED <<gateVars, loopVars, volumeVars>>
    /\ UNCHANGED auxVars

\* the metadata of the loaded resource arrives: the element applies its
\* default playback start position; handleLoadedMetadata
LoadedMetadata ==
    /\ audioMounted
    /\ audioDuration = 0
    /\ audioDuration' = TrackDuration
    /\ audioTime' = Max(0, Min(TrackDuration, audioTime))
    /\ duration' = TrackDuration
    /\ last' = "loadedMetadata"
    /\ UNCHANGED <<mounted, numTracks, isPlaying, isLooping, isShuffled, currentTime,
                   currentTrackIndex, isDragging, audioPaused, playPromises,
                   onTrackChangeArg, startedAllowed, notifyOwed>>
    /\ UNCHANGED <<gateVars, loopVars, volumeVars>>
    /\ UNCHANGED auxVars

\* timeupdate with an updateTime that ignores the drag
TimeUpdate_IgnoresDrag ==
    /\ audioMounted
    /\ currentTime' = audioTime
    /\ duration' = audioDuration
    /\ last' = "timeUpdate"
    /\ UNCHANGED <<mounted, numTracks, isPlaying, isLooping, isShuffled,
                   currentTrackIndex, isDragging, audioPaused, audioTime,
                   audioDuration, playPromises, onTrackChangeArg, startedAllowed,
                   notifyOwed>>
    /\ UNCHANGED <<gateVars, loopVars, volumeVars>>
    /\ UNCHANGED auxVars

\* timeupdate: updateTime, which returns at once during a drag
TimeUpdate ==
    /\ audioMounted
    /\ IF isDragging
       THEN UNCHANGED <<currentTime, duration>>
       ELSE /\ currentTime' = audioTime
            /\ duration' = audioDuration
    /\ last' = "timeUpdate"
    /\ UNCHANGED <<mounted, numTracks, isPlaying, isLooping, isShuffled,
                   currentTrackIndex, isDragging, audioPaused, audioTime,
                   audioDuration, playPromises, onTrackChangeArg, startedAllowed,
                   notifyOwed>>
    /\ UNCHANGED <<gateVars, loopVars, volumeVars>>
    /\ UNCHANGED auxVars

(***************************************************************************)
(* Volume.                                                                 *)
(***************************************************************************)
\* frame of the volume handlers
transportVars == <<mounted, numTracks, isPlaying, isLooping, isShuffled,
                   currentTime, duration, currentTrackIndex, isDragging,
                   audioPaused, audioTime, audioDuration, playPromises,
                   onTrackChangeArg, startedAllowed, notifyOwed>>

\* ArrowDown with the mute test volume - 0.1 < 0
KeyArrowDown_MuteBelowZero ==
    /\ mounted
    /\ last' = "arrowDown"
    /\ volume' = Max(0, volume - VolumeStep)
    /\ isMuted' = (volume - VolumeStep < 0)
    /\ VolumeEffect
    /\ UNCHANGED <<showVolumeSlider, isVolumeDragging>>
    /\ UNCHANGED <<gateVars, loopVars, transportVars>>
    /\ UNCHANGED auxVars

KeyArrowUp ==
    /\ mounted
    /\ last' = "arrowUp"
    /\ volume' = Min(VolumeOne, volume + VolumeStep)
    /\ isMuted' = FALSE
    /\ VolumeEffect
    /\ UNCHANGED <<showVolumeSlider, isVolumeDragging>>
    /\ UNCHANGED <<gateVars, loopVars, transportVars>>
    /\ UNCHANGED auxVars

KeyArrowDown ==
    /\ mounted
    /\ last' = "arrowDown"
    /\ volume' = Max(0, volume - VolumeStep)
    /\ isMuted' = (volume - VolumeStep <= 0)
    /\ VolumeEffect
    /\ UNCHANGED <<showVolumeSlider, isVolumeDragging>>
    /\ UNCHANGED <<gateVars, loopVars, transportVars>>
    /\ UNCHANGED auxVars

\* the mute toggle storing 0 as the volume when it mutes
ToggleMute_ZeroesVolume ==
    /\ mounted
    /\ last' = "toggleMute"
    /\ isMuted' = ~isMuted
    /\ volume' = IF isMuted THEN volume ELSE 0
    /\ VolumeEffect
    /\ UNCHANGED <<showVolumeSlider, isVolumeDragging>>
    /\ UNCHANGED <<gateVars, loopVars, transportVars>>
    /\ UNCHANGED auxVars

ToggleMute ==
    /\ mounted
    /\ last' = "toggleMute"
    /\ isMuted' = ~isMuted
    /\ volume' = volume
    /\ VolumeEffect
    /\ UNCHANGED <<showVolumeSlider, isVolumeDragging>>
    /\ UNCHANGED <<gateVars, loopVars, transportVars>>
    /\ UNCHANGED auxVars

ToggleVolumeSlider ==
    /\ audioMounted
    /\ showVolumeSlider' = ~showVolumeSlider
    /\ last' = "toggleVolumeSlider"
    /\ UNCHANGED <<volume, isMuted, isVolumeDragging, audioVolume>>
    /\ UNCHANGED <<gateVars, loopVars, transportVars>>
    /\ UNCHANGED auxVars

VolumeMouseDown ==
    /\ audioMounted
    /\ showVolumeSlider
    /\ isVolumeDragging' = TRUE
    /\ \E q \in VolumePointers : VolumeChange(q)
    /\ last' = "volumeMouseDown"
    /\ UNCHANGED showVolumeSlider
    /\ UNCHANGED <<gateVars, loopVars, transportVars>>
    /\ UNCHANGED <<showLimitModal, effectPlay>>
    /\ DragEffect

\* handleClickOutside: a mousedown outside the volume section
ClickOutside ==
    /\ audioMounted
    /\ showVolumeSlider
    /\ showVolumeSlider' = FALSE
    /\ last' = "clickOutside"
    /\ UNCHANGED <<volume, isMuted, isVolumeDragging, audioVolume>>
    /\ UNCHANGED <<gateVars, loopVars, transportVars>>
    /\ UNCHANGED auxVars

(***************************************************************************)
(* PlayerBar mounted on a list of tracks.                                  *)
(***************************************************************************)
InitPlayer ==
    /\ GateInit
    /\ showLimitModal = FALSE
    /\ mounted = TRUE
    /\ numTracks \in 0..MaxTracks
    /\ PlayerBarInit

\* the parent stops rendering PlayerBar: its state is discarded and the
\* cleanups of its effects run
Unmount ==
    /\ mounted
    /\ mounted' = FALSE
    /\ PlayerDefaults
    /\ last' = "unmount"
    /\ UNCHANGED <<numTracks, notifyOwed, showLimitModal>>
    /\ UNCHANGED <<gateVars, loopVars>>

\* the parent renders PlayerBar again
Mount ==
    /\ ~mounted
    /\ mounted' = TRUE
    /\ PlayerDefaults
    /\ last' = "none"
    /\ UNCHANGED <<numTracks, notifyOwed, showLimitModal>>
    /\ UNCHANGED <<gateVars, loopVars>>

NextPlayer ==
    \/ Unmount
    \/ Mount
    \/ TogglePlayPause
    \/ PlayResolve
    \/ PlayReject
    \/ Ended
    \/ LoopRestart
    \/ ToggleLoop
    \/ ToggleShuffle
    \/ SkipForward
    \/ SkipBackward
    \/ ProgressMouseDown
    \/ MouseMove
    \/ MouseUp
    \/ AudioAdvance
    \/ LoadedMetadata
    \/ TimeUpdate

SpecPlayer == InitPlayer /\ [][NextPlayer]_vars

NextVolume ==
    \/ KeyArrowUp
    \/ KeyArrowDown
    \/ ToggleMute
    \/ ToggleVolumeSlider
    \/ VolumeMouseDown
    \/ MouseMove
    \/ MouseUp
    \/ ClickOutside

SpecVolume == InitPlayer /\ [][NextVolume]_vars

\* the progress bar and the volume bar dragged in a PlayerBar that its parent
\* mounts and unmounts
NextDrag ==
    \/ Unmount
    \/ Mount
    \/ LoadedMetadata
    \/ ToggleVolumeSlider
    \/ ProgressMouseDown
    \/ VolumeMouseDown
    \/ MouseMove
    \/ MouseUp
    \/ ClickOutside

SpecDrag == InitPlayer /\ [][NextDrag]_vars

(***************************************************************************)
(* The keyboard: handleKeyDown, attached to the document while PlayerBar   *)
(* is mounted and bound anew after every render.                           *)
(***************************************************************************)
\* e.key: the keys of the switch and one it has no case for
Keys == {" ", "k", "ArrowLeft", "ArrowRight", "ArrowUp", "ArrowDown",
         "m", "l", "s", "x"}

\* e.target: an HTMLInputElement, an HTMLTextAreaElement, anything else
Targets == {"input", "textarea", "body"}

\* the handler returns, or its switch has no case for the key
KeyIgnored ==
    /\ last' = "keyIgnored"
    /\ UNCHANGED <<gateVars, loopVars, transportVars, volumeVars, auxVars>>

\* the switch on e.key
KeySwitch(key) ==
    CASE key \in {" ", "k"} -> TogglePlayPause
      [] key = "ArrowLeft" -> SkipBackward
      [] key = "ArrowRight" -> SkipForward
      [] key = "ArrowUp" -> KeyArrowUp
      [] key = "ArrowDown" -> KeyArrowDown
      [] key = "m" -> ToggleMute
      [] key = "l" -> ToggleLoop
      [] key = "s" -> ToggleShuffle
      [] OTHER -> KeyIgnored

\* handleKeyDown without the test of e.target
handleKeyDown_NoTargetTest(key, target) == KeySwitch(key)

\* handleKeyDown(e) with e.key = key and e.target = target
handleKeyDown(key, target) ==
    IF target \in {"input", "textarea"}
    THEN KeyIgnored
    ELSE KeySwitch(key)

\* a keydown event reaches the document
KeyDown ==
    /\ mounted
    /\ \E key \in Keys, target \in Targets : handleKeyDown(key, target)

\* the keyboard, and the audio element answering it
NextKeys ==
    \/ KeyDown
    \/ PlayResolve
    \/ PlayReject
    \/ AudioAdvance
    \/ LoadedMetadata

SpecKeys == InitPlayer /\ [][NextKeys]_vars

(***************************************************************************)
(* The random selection of a shuffled skip, one draw per step.  The loop   *)
(* is synchronous code: nothing else runs until it has exited.             *)
(***************************************************************************)
\* the draw counter stops counting here
MaxDraws == 3

\* Math.floor(Math.random() * tracks.length)
randomDraw(n) == IF n = 0 THEN {0} ELSE 0..(n - 1)

\* the loop condition without its test of tracks.length
loopAgain_NoLengthTest(idx, i, n) == idx = i

\* while (newIndex === playerState.currentTrackIndex && tracks.length > 1)
loopAgain(idx, i, n) == idx = i /\ n > 1

\* skipForward or skipBackward (past its audio guard and its restart branch)
\* reaches if (playerState.isShuffled) with let newIndex = currentTrackIndex
ShuffleSkipBegin ==
    \E fn \in {"skipForward", "skipBackward"} :
        /\ loopPc = "idle"
        /\ mounted
        /\ isShuffled
        /\ fn = "skipBackward" => (audioMounted /\ audioTime <= SkipBackThreshold)
        /\ loopPc' = fn
        /\ loopIndex' = currentTrackIndex
        /\ draws' = 0
        /\ UNCHANGED <<gateVars, transportVars, volumeVars, auxVars, last>>

\* the body of the do-while: first unconditionally, then for as long as the
\* loop condition holds
ShuffleDraw ==
    /\ loopPc # "idle"
    /\ draws = 0 \/ loopAgain(loopIndex, currentTrackIndex, numTracks)
    /\ \E d \in randomDraw(numTracks) : loopIndex' = d
    /\ draws' = Min(draws + 1, MaxDraws)
    /\ UNCHANGED <<gateVars, transportVars, volumeVars, auxVars, last, loopPc>>

\* the loop condition fails: setPlayerState({currentTrackIndex: newIndex}),
\* onTrackChange?.(newIndex), then the track-change effect
ShuffleExit ==
    /\ loopPc # "idle"
    /\ draws > 0
    /\ ~loopAgain(loopIndex, currentTrackIndex, numTracks)
    /\ ChangeTrack(loopIndex)
    /\ last' = loopPc
    /\ loopPc' = "idle"
    /\ UNCHANGED <<mounted, numTracks, isPlaying, isLooping, isShuffled, currentTime,
                   duration, isDragging, startedAllowed, notifyOwed>>
    /\ UNCHANGED <<gateVars, volumeVars, loopIndex, draws>>
    /\ UNCHANGED <<docListeners, showLimitModal>>

\* what else happens to the player between two shuffled skips
BetweenSkips ==
    /\ loopPc = "idle"
    /\ \/ ToggleShuffle
       \/ ~isShuffled /\ SkipForward
       \/ ~isShuffled /\ SkipBackward
       \/ TogglePlayPause
       \/ PlayResolve
       \/ LoadedMetadata
       \/ AudioAdvance

NextShuffle ==
    \/ BetweenSkips
    \/ ShuffleSkipBegin
    \/ ShuffleDraw
    \/ ShuffleExit

SpecShuffle == InitPlayer /\ [][NextShuffle]_vars

\* the code after the loop runs, the body of a loop that has not yet exited
\* runs, and Math.random() does not return the same value for ever
FairSpecShuffle ==
    /\ SpecShuffle
    /\ WF_vars(ShuffleExit)
    /\ WF_vars(ShuffleDraw /\ draws = 0)
    /\ WF_vars(ShuffleDraw /\ loopIndex' # currentTrackIndex)

(***************************************************************************)
(* SharePage: usePlayLimits({track: tracks?.[0] || null, isSharedLink:     *)
(* !!token}) and <PlayerBar tracks=... variant="minimal" />.  The page     *)
(* passes nothing of the hook to PlayerBar and calls none of its functions.*)
(***************************************************************************)
\* the page is rendered with the props of a share link (token is the route
\* parameter, so isSharedLink is true); without tracks the page returns
\* before PlayerBar, which unmounts it; a track with another id changes the
\* src of the audio element, which loads it
PageProps ==
    \E t \in Tracks \cup {NoTrack} :
        /\ RebindGate(t, TRUE)
        /\ mounted' = (t # NoTrack)
        /\ numTracks' = IF t = NoTrack THEN 0 ELSE 1
        /\ IF t = NoTrack \/ track = NoTrack
           THEN PlayerDefaults
           ELSE IF t.id # track.id
                THEN /\ audioPaused' = TRUE
                     /\ playPromises' = <<>>
                     /\ audioTime' = 0
                     /\ audioDuration' = 0
                     /\ UNCHANGED <<isPlaying, isLooping, isShuffled, currentTime,
                                    duration, currentTrackIndex, isDragging,
                                    onTrackChangeArg, startedAllowed, volumeVars,
                                    docListeners, effectPlay>>
                ELSE UNCHANGED <<isPlaying, isLooping, isShuffled, currentTime,
                                 duration, currentTrackIndex, isDragging,
                                 audioPaused, audioTime, audioDuration,
                                 playPromises, onTrackChangeArg, startedAllowed,
                                 volumeVars, docListeners, effectPlay>>
        /\ last' = "none"
        /\ UNCHANGED <<notifyOwed, showLimitModal, loopVars>>

NextPage ==
    \/ PageProps
    \/ TogglePlayPause
    \/ PlayResolve
    \/ PlayReject
    \/ Ended
    \/ LoopRestart
    \/ ToggleLoop
    \/ AudioAdvance
    \/ LoadedMetadata
    \/ TimeUpdate

SpecPage == Init /\ [][NextPage]_vars

\* the browser settles every play request
PlaySettle == PlayResolve \/ PlayReject

FairSpecPage == Init /\ [][NextPage]_vars /\ WF_vars(PlaySettle)

(***************************************************************************)
(* SharePage given a list of several tracks, which its props and PlayerBar *)
(* allow: the hook is bound to tracks?.[0], PlayerBar gets the whole list  *)
(* and no onTrackChange.                                                   *)
(***************************************************************************)
\* the index of the track the page hands to usePlayLimits
boundTrackIndex == 0

\* the first render of the page with a list of n tracks, t the first of them
PageListProps ==
    \E t \in Tracks, n \in 1..MaxTracks :
        /\ ~mounted
        /\ track = NoTrack
        /\ RebindGate(t, TRUE)
        /\ mounted' = TRUE
        /\ numTracks' = n
        /\ PlayerDefaults
        /\ last' = "none"
        /\ UNCHANGED <<notifyOwed, showLimitModal, loopVars>>

\* the page with its list, the player skipped by the arrow keys
NextPageList ==
    \/ PageListProps
    \/ SkipForward
    \/ SkipBackward
    \/ ToggleShuffle
    \/ TogglePlayPause
    \/ PlayResolve
    \/ AudioAdvance
    \/ LoadedMetadata

SpecPageList == Init /\ [][NextPageList]_vars

(***************************************************************************)
(* The claims.                                                             *)
(***************************************************************************)
\* the requests in flight that the current binding issued
NonStalePending ==
    LET S == {r \in DOMAIN inflight : ~r.stale}
        RECURSIVE Sum(_)
        Sum(T) == IF T = {} THEN 0
                  ELSE LET x == CHOOSE x \in T : TRUE
                       IN  inflight[x] + Sum(T \ {x})
    IN  Sum(S)

\* C1: on the share page a shared-link track is Playing only after a
\* toggle-play intent that was issued while canPlay was true.
C1_PlayingOnlyAfterAllowedIntent ==
    (isSharedLink /\ isPlaying) => startedAllowed

\* C2: every successful Paused -> Playing transition of a shared-link track
\* is eventually followed by a recordPlay (decrementPlayCount) call.
C2_PlayLeadsToRecordPlay == notifyOwed ~> ~notifyOwed

C4_TwoSuccessesOneIncrement ==
    (mount.succeeded >= 2 /\ ~mount.staleHit)
        => playCount = OrZero(track.plays) + 1

C4_Witness ==
    /\ mount.succeeded = 2
    /\ ~mount.staleHit
    /\ inflight = EmptyBag
    /\ playCount = OrZero(track.plays) + 1

\* C5: within one track mount at most one report-play request completes
\* successfully, and a further request is issued only after the earlier
\* attempts have failed.
C5_AtMostOneSuccessfulRecord ==
    mount.succeeded + NonStalePending <= 1

\* C6: the response of a report-play request that was in flight when the
\* track identity changed changes none of playCount, hasDecremented and
\* isLimitReached.
C6_StaleResultsDiscarded ==
    [][(\E r \in DOMAIN inflight, resp \in Responses :
            r.stale /\ SettleGate(r, resp))
        => UNCHANGED <<playCount, hasDecremented, isLimitReached>>]_vars

\* C7: isLimitReached is true exactly when playLimit is not null and
\* playCount >= playLimit.
C7_LimitReachedIffCountAtLimit ==
    isLimitReached <=> (playLimit # NULL /\ playCount >= playLimit)

\* C8: when the identity of the bound shared-link track changes, the four
\* fields are those of the new track: its plays, its play_limit, no recorded
\* play, and isLimitReached exactly when its plays have reached its limit.
C8_IdentityChangeResets ==
    [][( /\ Identity(track') # Identity(track)
         /\ track' # NoTrack
         /\ isSharedLink' )
        => /\ playCount' = OrZero(track'.plays)
           /\ playLimit' = OrNull(track'.play_limit)
           /\ hasDecremented' = FALSE
           /\ isLimitReached' <=> ( /\ Truthy(track'.play_limit)
                                    /\ OrZero(track'.plays) >= track'.play_limit )]_vars

\* C9: canPlay is true exactly when the track is not a shared link, or
\* playLimit is unset, or playCount < playLimit.
C9_CanPlayIffBelowLimit ==
    canPlay <=> (~isSharedLink \/ playLimit = NULL \/ playCount < playLimit)

\* C10: recordPlay (decrementPlayCount) called when the track is not a shared
\* link, the limit is reached or a play was already recorded issues no request
\* and changes none of playCount, playLimit, isLimitReached, hasDecremented.
C10_RecordPlayNoOp ==
    [][( /\ DecrementPlayCountGate
         /\ (~isSharedLink \/ isLimitReached \/ hasDecremented) )
        => /\ inflight' = inflight
           /\ UNCHANGED <<playCount, playLimit, isLimitReached, hasDecremented>>]_vars

C10_Witness ==
    /\ isSharedLink
    /\ track # NoTrack
    /\ hasDecremented
    /\ ~isLimitReached
    /\ mount.succeeded = 1
    /\ inflight = EmptyBag

\* C11: a report-play request that fails (fetch throws, the response is not
\* OK, or the body carries success = false) is swallowed: the promise of
\* decrementPlayCount resolves, the response changes none of playCount,
\* isLimitReached and hasDecremented, and a later decrementPlayCount of the
\* same mount, which has still recorded no play, issues a new request.
C11_FailureSwallowed ==
    /\ \A resp \in Responses :
           UpdateTrackPlay(resp) # "success"
               => decrementPlayCountPromise(resp) = "resolved"
    /\ [][( /\ inflight' # inflight
            /\ \E r \in DOMAIN inflight, resp \in Responses :
                   UpdateTrackPlay(resp) # "success" /\ SettleGate(r, resp) )
           => UNCHANGED <<playCount, isLimitReached, hasDecremented>>]_vars
    /\ [][( /\ DecrementPlayCountGate
            /\ mount.failed
            /\ track # NoTrack
            /\ isSharedLink
            /\ ~isLimitReached
            /\ ~hasDecremented )
           => BagCardinality(inflight') = BagCardinality(inflight) + 1]_vars

\* a request of the mount has failed, no play is recorded, and a further
\* request of the mount is in flight
C11_Witness ==
    /\ mount.failed
    /\ mount.succeeded = 0
    /\ ~mount.staleHit
    /\ ~hasDecremented
    /\ playCount = OrZero(track.plays)
    /\ NonStalePending = 1

\* C12: hasDecremented (hasRecordedPlay) is monotonic per track identity:
\* once true it stays true in every later state for as long as the bound
\* track (id, share token, bound as a shared link) is unchanged.
C12_RecordedPlayMonotonic ==
    [][( /\ hasDecremented
         /\ Identity(track') = Identity(track)
         /\ isSharedLink' = isSharedLink ) => hasDecremented']_vars

\* a play of the mount is recorded while a further request of the mount
\* still awaits its response
C12_Witness ==
    /\ hasDecremented
    /\ isSharedLink
    /\ mount.succeeded = 1
    /\ NonStalePending = 1

\* C13: checkPlayLimit returns false and sets isLimitReached exactly when the
\* track is a shared link with a play limit and playCount >= playLimit; in
\* every other case it returns true and changes nothing of the gate.
C13_CheckLimit ==
    /\ [](checkPlayLimitResult
            <=> ~(isSharedLink /\ playLimit # NULL /\ playCount >= playLimit))
    /\ [][CheckPlayLimitGate
            => IF isSharedLink /\ playLimit # NULL /\ playCount >= playLimit
               THEN /\ ~checkPlayLimitResult
                    /\ isLimitReached'
                    /\ UNCHANGED <<playCount, playLimit, hasDecremented, inflight>>
               ELSE /\ checkPlayLimitResult
                    /\ UNCHANGED <<playCount, playLimit, isLimitReached,
                                   hasDecremented, inflight>>]_vars

\* the count of a shared-link track is at its limit and the flag is not yet
\* set: checkPlayLimit returns false and sets it
C13_Witness ==
    /\ isSharedLink
    /\ playLimit # NULL
    /\ playCount >= playLimit
    /\ ~isLimitReached
    /\ ~checkPlayLimitResult

\* C14: when the play request of a toggle-play intent issued from Paused is
\* rejected, the player state is unchanged (isPlaying stays false, the
\* element stays paused), no play request is issued in its place, and the
\* rejection is handled inside the intent's promise chain.
C14_RejectedPlayLeavesPaused ==
    /\ togglePlayPauseChain("rejected") = "settled"
    /\ [][PlayReject
            => /\ ~isPlaying /\ ~isPlaying'
               /\ audioPaused /\ audioPaused'
               /\ Len(playPromises') = Len(playPromises) - 1
               /\ UNCHANGED <<isLooping, isShuffled, currentTime, duration,
                              currentTrackIndex, volume, isMuted, audioTime,
                              audioDuration>>]_vars

\* the only play request was rejected: Paused, and nothing pending
C14_Witness ==
    /\ last = "playRejected"
    /\ ~isPlaying
    /\ audioPaused
    /\ playPromises = <<>>

\* C15: a seek (a press on the progress bar, or a pointer move during the
\* drag, also outside the bar) sets the transport position and currentTime
\* to the same value, which lies in [0, duration].
C15_SeekClamped ==
    [][(ProgressMouseDown \/ (MouseMove /\ isDragging))
        => /\ currentTime' >= 0
           /\ currentTime' <= duration
           /\ audioTime' = currentTime']_vars

\* C16: skip-backward with the transport position above 3 seconds restarts
\* the current track: the position becomes 0, currentTrackIndex is unchanged
\* and onTrackChange is not called.  With the position at 3 seconds or less
\* and shuffle off, currentTrackIndex becomes the previous index, wrapping
\* from 0 to the last index.
C16_SkipBackward ==
    [][SkipBackward
        => IF audioTime > SkipBackThreshold
           THEN /\ audioTime' = 0
                /\ currentTime' = 0
                /\ UNCHANGED <<currentTrackIndex, onTrackChangeArg>>
           ELSE ~isShuffled
                    => currentTrackIndex' = IF currentTrackIndex = 0
                                            THEN numTracks - 1
                                            ELSE currentTrackIndex - 1]_vars

\* skip-backward has restarted the track: no index was ever reported
C16_Witness ==
    /\ last = "skipBackward"
    /\ onTrackChangeArg = NULL
    /\ audioDuration = TrackDuration
    /\ audioTime = 0
    /\ currentTime = 0

\* skip-backward has wrapped from the first track to the last
C16_WitnessWrap ==
    /\ last = "skipBackward"
    /\ ~isShuffled
    /\ numTracks > 1
    /\ currentTrackIndex = numTracks - 1
    /\ onTrackChangeArg = currentTrackIndex

\* the index after k skip-forwards with shuffle off
RECURSIVE SkipForwardTimes(_, _, _)
SkipForwardTimes(i, n, k) ==
    IF k = 0 THEN i ELSE SkipForwardTimes(nextIndex(i, n), n, k - 1)

\* C17: with shuffle off, skip-forward sets currentTrackIndex to the next
\* index, wrapping from the last to 0, and hands the new index to
\* onTrackChange; on a list of N >= 1 tracks N consecutive skip-forwards lead
\* back to the index they started from.
C17_SkipForward ==
    /\ [][(SkipForward /\ ~isShuffled /\ numTracks >= 1)
            => /\ currentTrackIndex' = IF currentTrackIndex = numTracks - 1
                                       THEN 0
                                       ELSE currentTrackIndex + 1
               /\ onTrackChangeArg' = currentTrackIndex']_vars
    /\ [](numTracks >= 1
            => SkipForwardTimes(currentTrackIndex, numTracks, numTracks)
                   = currentTrackIndex)

\* skip-forward has wrapped from the last track to the first and reported it
C17_Witness ==
    /\ last = "skipForward"
    /\ ~isShuffled
    /\ numTracks > 1
    /\ currentTrackIndex = 0
    /\ onTrackChangeArg = 0

\* C18: with shuffle on, a skip (forward, or backward with the position at 3
\* seconds or less) leaves currentTrackIndex unchanged on a list of exactly
\* one track, and on a longer list moves it to a valid index different from
\* the current one.
C18_ShuffleSkip ==
    [][( /\ isShuffled
         /\ SkipForward \/ (SkipBackward /\ audioTime <= SkipBackThreshold) )
        => /\ numTracks = 1 => currentTrackIndex' = currentTrackIndex
           /\ numTracks > 1 => /\ currentTrackIndex' \in 0..(numTracks - 1)
                               /\ currentTrackIndex' # currentTrackIndex]_vars

\* a shuffled skip-forward has moved a playing list to another track
C18_Witness ==
    /\ last = "skipForward"
    /\ isShuffled
    /\ numTracks > 2
    /\ currentTrackIndex = 2
    /\ onTrackChangeArg = 2
    /\ isPlaying

\* C19: at the end of the track, with isLooping the position is reset to 0
\* and isPlaying stays true; without it the position is left at the end and
\* isPlaying becomes false; isLooping is taken as it is at the event.
C19_EndOfTrack ==
    [][(Ended \/ LoopRestart)
        => IF isLooping
           THEN audioTime' = 0 /\ isPlaying /\ isPlaying'
           ELSE audioTime' = audioTime /\ ~isPlaying']_vars

\* C20: a keyboard volume step changes volume by 0.1, clamped to [0, 1]
\* (0.95 up gives 1, 0.05 down gives 0); an up-arrow leaves isMuted false and
\* a down-arrow leaves isMuted true exactly when it leaves volume at 0.
C20_VolumeStep ==
    /\ [][KeyArrowUp
            => /\ volume' = IF volume + VolumeStep > VolumeOne
                            THEN VolumeOne ELSE volume + VolumeStep
               /\ ~isMuted']_vars
    /\ [][KeyArrowDown
            => /\ volume' = IF volume - VolumeStep < 0
                            THEN 0 ELSE volume - VolumeStep
               /\ isMuted' <=> (volume' = 0)]_vars

\* a down-arrow has brought the volume to 0 and muted the player
C20_Witness ==
    /\ last = "arrowDown"
    /\ volume = 0
    /\ isMuted
    /\ audioVolume = 0

\* C21: the mute toggle flips isMuted and leaves the stored volume and every
\* other field of the player state unchanged; the volume of the audio
\* element is 0 while muted and the stored volume otherwise, so unmuting
\* restores the volume heard before muting.
C21_MuteToggle ==
    /\ [][ToggleMute
            => /\ isMuted' = ~isMuted
               /\ UNCHANGED <<volume, showVolumeSlider, isPlaying, isLooping,
                              isShuffled, currentTime, duration,
                              currentTrackIndex>>
               /\ audioMounted
                    => audioVolume' = IF isMuted THEN volume ELSE 0]_vars
    /\ [](audioMounted => audioVolume = IF isMuted THEN 0 ELSE volume)

\* the player was unmuted at a volume set below the default: the audio
\* element has that volume again
C21_Witness ==
    /\ last = "toggleMute"
    /\ ~isMuted
    /\ volume > 0
    /\ volume < VolumeOne
    /\ audioVolume = volume

\* C22 as stated: a skip-forward or skip-backward that updates
\* currentTrackIndex leaves the player Paused (isPlaying = false), from any
\* prior state.
C22_SkipLeavesPaused ==
    [][( /\ SkipForward \/ SkipBackward
         /\ currentTrackIndex' # currentTrackIndex ) => ~isPlaying']_vars

\* C22 as amended: a skip-forward or skip-backward that updates
\* currentTrackIndex leaves isPlaying as it was: a paused player stays
\* Paused and a playing one stays Playing.
C22_SkipKeepsPlayState ==
    [][( /\ SkipForward \/ SkipBackward
         /\ currentTrackIndex' # currentTrackIndex ) => isPlaying' = isPlaying]_vars

\* a skip-forward has moved a playing player to another track
C22_Witness ==
    /\ last = "skipForward"
    /\ currentTrackIndex = 1
    /\ onTrackChangeArg = 1
    /\ ~isShuffled
    /\ isPlaying

\* C23: a step that changes currentTrackIndex while the audio element is
\* rendered loads the new source (the transport is rewound, its metadata is
\* forgotten, pending play promises are dropped); isPlaying keeps its value;
\* a play request is issued for the new track exactly if isPlaying was true,
\* and a paused player is left with a paused transport.
C23_TrackChange ==
    [][( /\ currentTrackIndex' # currentTrackIndex
         /\ mounted /\ mounted'
         /\ currentTrackIndex' < numTracks' )
       => /\ audioTime' = 0
          /\ audioDuration' = 0
          /\ playPromises' = <<>>
          /\ isPlaying' = isPlaying
          /\ effectPlay' = isPlaying
          /\ ~isPlaying => audioPaused']_vars

\* a playing player was moved to track 2 by a skip and the transport, loaded
\* anew, took the play request of the effect
C23_Witness ==
    /\ last \in {"skipForward", "skipBackward"}
    /\ currentTrackIndex = 2
    /\ isPlaying
    /\ effectPlay
    /\ ~audioPaused
    /\ audioTime = 0
    /\ audioDuration = 0

\* C24: while a scrub is active (isDragging, from pointer-down on the
\* progress bar until pointer-up) a transport time-update event leaves
\* currentTime alone; with no scrub active a time-update event sets
\* currentTime to the position the transport reports.
C24_ScrubSuppressesTimeUpdate ==
    /\ [][(TimeUpdate /\ isDragging) => currentTime' = currentTime]_vars
    /\ [][(TimeUpdate /\ ~isDragging) => currentTime' = audioTime]_vars
    /\ [][ProgressMouseDown => isDragging']_vars
    /\ [][MouseUp => ~isDragging']_vars

\* a time update arrived during a scrub and the dragged position, which is
\* not the transport's, is still shown
C24_Witness ==
    /\ last = "timeUpdate"
    /\ isDragging
    /\ duration # 0
    /\ currentTime # audioTime

\* C25: the document-level pointer-move/pointer-up listeners are attached
\* exactly while a progress drag or a volume drag is active; a pointer-up
\* removes them, and so does an unmount in the middle of a drag.
C25_DragListeners ==
    /\ [](docListeners <=> (isDragging \/ isVolumeDragging))
    /\ [][MouseUp => ~docListeners']_vars
    /\ [][Unmount => ~docListeners']_vars

\* a pointer-up ended a drag that had moved the progress position, and the
\* document is left without the listeners
C25_Witness ==
    /\ last = "mouseUp"
    /\ ~docListeners
    /\ ~isDragging /\ ~isVolumeDragging
    /\ currentTime # 0

\* C26: in every reachable state in which the duration is known,
\* 0 <= currentTime <= duration.
C26_TimeWithinDuration ==
    duration # 0 => (currentTime >= 0 /\ currentTime <= duration)

\* C27: in every reachable state currentTrackIndex is in [0, N) for the list
\* of N tracks given to the player, or the list is empty, the index is still
\* the initial 0 and the player renders nothing; no skip-forward or
\* skip-backward, shuffled or not, moves the index out of the list.
C27_IndexInList ==
    IF numTracks = 0
    THEN currentTrackIndex = 0 /\ ~audioMounted
    ELSE currentTrackIndex \in 0..(numTracks - 1)

\* a shuffled skip-backward has drawn the last track of a list of three
C27_Witness ==
    /\ last = "skipBackward"
    /\ isShuffled
    /\ numTracks = MaxTracks
    /\ currentTrackIndex = MaxTracks - 1
    /\ onTrackChangeArg = MaxTracks - 1

\* a skip-forward on an empty list has reported index 0 to onTrackChange
C27_WitnessEmpty ==
    /\ last = "skipForward"
    /\ numTracks = 0
    /\ onTrackChangeArg = 0
    /\ currentTrackIndex = 0

\* C28: volume is within [0, 1] in every reachable state, after any sequence
\* of absolute sets (pointer inside or outside the volume bar) and -/+ 0.1
\* keyboard steps; an absolute set to exactly 0 sets isMuted and an absolute
\* set to a nonzero value clears it.
C28_VolumeRange ==
    /\ [](volume >= 0 /\ volume <= VolumeOne)
    /\ [][(VolumeMouseDown \/ (MouseMove /\ isVolumeDragging /\ audioMounted))
          => (isMuted' <=> volume' = 0)]_vars

\* a volume drag has taken the level to 0 from below the bar's left end, or
\* left it there, and the player is muted
C28_Witness ==
    /\ last = "mouseMove"
    /\ isVolumeDragging
    /\ volume = 0
    /\ isMuted
    /\ audioVolume = 0

\* the function each pointer intent of C29 is bound to: the play button, the
\* skip-backward and skip-forward buttons, the mute toggle, the loop button
\* and the shuffle button
PointerIntent(key) ==
    CASE key \in {" ", "k"} -> TogglePlayPause
      [] key = "ArrowLeft" -> SkipBackward
      [] key = "ArrowRight" -> SkipForward
      [] key = "m" -> ToggleMute
      [] key = "l" -> ToggleLoop
      [] key = "s" -> ToggleShuffle

C30_DeniedPlayOpensModal ==
    [][( /\ TogglePlayPause
         /\ ~isPlaying
         /\ isSharedLink
         /\ ~canPlay ) => showLimitModal']_vars

\* C31: the random selection loop of a shuffled skip terminates for every
\* list length and current index, under fair random choice; on a list of at
\* most one track it exits after exactly one draw, and on a longer list it
\* draws again only after a draw equal to the current index and exits only
\* with a draw that differs from it.
C31_ShuffleLoopTerminates ==
    /\ (loopPc # "idle") ~> (loopPc = "idle")
    /\ [][(ShuffleExit /\ numTracks <= 1) => draws = 1]_vars
    /\ [][(ShuffleDraw /\ draws > 0) => (numTracks > 1 /\ loopIndex = currentTrackIndex)]_vars
    /\ [][(ShuffleExit /\ numTracks > 1) => loopIndex # currentTrackIndex]_vars

\* a loop on a list of several tracks has exited after drawing the current
\* index at least once
C31_Witness ==
    /\ loopPc = "idle"
    /\ last \in {"skipForward", "skipBackward"}
    /\ isShuffled
    /\ numTracks > 1
    /\ draws >= 2
    /\ currentTrackIndex = loopIndex

\* a loop on a list of one track has exited after its single draw
C31_WitnessOne ==
    /\ loopPc = "idle"
    /\ last = "skipForward"
    /\ isShuffled
    /\ numTracks = 1
    /\ draws = 1

\* C32: the loop toggle and the shuffle toggle each negate their own flag and
\* change no other PlayerState field, so that a second toggle restores the
\* state; neither changes currentTrackIndex nor starts or stops the
\* transport.
C32_PureFlagToggles ==
    /\ [][ToggleLoop =>
            /\ isLooping' = ~isLooping
            /\ UNCHANGED <<isPlaying, isShuffled, currentTime, duration,
                           currentTrackIndex, volume, isMuted, showVolumeSlider>>
            /\ UNCHANGED <<audioPaused, audioTime, audioDuration, playPromises,
                           effectPlay>>]_vars
    /\ [][ToggleShuffle =>
            /\ isShuffled' = ~isShuffled
            /\ UNCHANGED <<isPlaying, isLooping, currentTime, duration,
                           currentTrackIndex, volume, isMuted, showVolumeSlider>>
            /\ UNCHANGED <<audioPaused, audioTime, audioDuration, playPromises,
                           effectPlay>>]_vars

\* shuffle was switched on and off again during playback of the second
\* track, which plays on at its position
C32_Witness ==
    /\ last = "toggleShuffle"
    /\ ~isShuffled
    /\ isPlaying
    /\ ~audioPaused
    /\ currentTrackIndex = 1
    /\ audioTime > 0

\* C33: for a shared link whose track has a positive play limit the banner
\* is shown in every state, with remaining = max(0, playLimit - playCount),
\* never negative; each successful recorded play lowers remaining by exactly
\* one; the banner is not shown when the link is not shared or the limit is
\* unset or not positive.
C33_BannerRemaining ==
    /\ []((isSharedLink /\ track # NoTrack /\ Truthy(track.play_limit)
             /\ track.play_limit > 0) => PlayLimitBannerShown)
    /\ [](PlayLimitBannerShown => (remaining >= 0 /\ remaining >= playLimit - playCount))
    /\ []((~isSharedLink \/ playLimit = NULL \/ playLimit <= 0) => ~PlayLimitBannerShown)
    /\ [][( /\ inflight' # inflight
            /\ PlayLimitBannerShown
            /\ \E r \in DOMAIN inflight, resp \in Responses :
                   UpdateTrackPlay(resp) = "success" /\ SettleGate(r, resp) )
          => remaining' = remaining - 1]_vars

\* C34: the transport is reloaded only when currentTrackIndex changes: a
\* step that leaves currentTrackIndex alone while the audio element stays
\* rendered, a pause or play toggle in particular, keeps the loaded metadata
\* and does not rewind, so that a resume continues from the position of the
\* pause.
C34_ReloadOnlyOnTrackChange ==
    /\ [][(TogglePlayPause \/ PlayResolve \/ PlayReject)
          => (audioTime' = audioTime /\ audioDuration' = audioDuration)]_vars
    /\ [][(mounted /\ mounted' /\ audioDuration # 0 /\ audioDuration' = 0)
          => currentTrackIndex' # currentTrackIndex]_vars

\* C35: isPlaying agrees with the transport: in every state with no play
\* request pending, isPlaying implies that the audio element is not paused.
C35_PlayingMeansTransportPlays ==
    (mounted /\ playPromises = <<>> /\ isPlaying) => ~audioPaused

\* C36: the gate describes the track the player has selected: on a share
\* page the track bound to usePlayLimits is the track at the player's
\* currentTrackIndex, also after a skip in a list of several tracks.  The
\* tracks of a list are distinct, so the two are the same track exactly if
\* their indices agree.
C36_GateFollowsPlayer ==
    (mounted /\ isSharedLink /\ track # NoTrack)
    => currentTrackIndex = boundTrackIndex

\* C37: a shared-link track whose play_limit is 0 or missing has no limit:
\* while it is bound playLimit is null, isLimitReached is false,
\* checkPlayLimit returns true and canPlay is true, whatever the playCount.
C37_NoLimitNeverBlocks ==
    (isSharedLink /\ track # NoTrack /\ ~Truthy(track.play_limit))
    => /\ playLimit = NULL
       /\ ~isLimitReached
       /\ checkPlayLimitResult
       /\ canPlay

====
